---- MODULE Spec2Model ----
(***************************************************************************)
(* Paint-mixing plant simulator (simulator.py): PaintMixture, PaintTank    *)
(* and Simulator, with the commands of the device server                   *)
(* (PaintMixingStation.py) as the external callers.                        *)
(*                                                                         *)
(* Python floats are modelled as exact rationals <<numerator, denominator>>*)
(* in lowest terms with a positive denominator, so that equal values are   *)
(* equal tuples.  random() and getrandbits(1) are nondeterministic choices *)
(* from RandomValues and BOOLEAN.  time.localtime()[1:6] is the value of   *)
(* the wall clock `now`, which advances by one second per simulate() call. *)
(***************************************************************************)
EXTENDS Integers, Sequences, FiniteSets, TLC

(***************************************************************************)
(* Bounds of the model.                                                    *)
(***************************************************************************)
\* number of source tanks wired to the mixer (the plant has five)
NumSources == 2
\* length of level_history and valve_history (the plant keeps 120 entries)
HistLen == 2
\* simulate() may start while now <= MaxTime
MaxTime == 3
\* number of external calls (fill, flush, set_valve) in one run of Spec
MaxCalls == 2

(***************************************************************************)
(* Exact rational arithmetic standing in for float arithmetic.             *)
(***************************************************************************)
Abs(n) == IF n < 0 THEN -n ELSE n

RECURSIVE GCD(_, _)
GCD(a, b) == IF b = 0 THEN a ELSE GCD(b, a % b)

\* n/d in lowest terms, d > 0
Cancel(n, d, g) == <<n \div g, d \div g>>
Rat(n, d) == IF n = 0 THEN <<0, 1>>
             ELSE IF d = 1 THEN <<n, 1>>
             ELSE Cancel(n, d, GCD(Abs(n), d))

Zero == <<0, 1>>
One == <<1, 1>>
Half == <<1, 2>>

RAdd(a, b) == Rat(a[1] * b[2] + b[1] * a[2], a[2] * b[2])
RSub(a, b) == Rat(a[1] * b[2] - b[1] * a[2], a[2] * b[2])
RMul(a, b) == Rat(a[1] * b[1], a[2] * b[2])
\* b # 0: the callers model ZeroDivisionError themselves
RDiv(a, b) == IF b[1] > 0 THEN Rat(a[1] * b[2], a[2] * b[1])
                          ELSE Rat(-(a[1] * b[2]), -(a[2] * b[1]))
RLt(a, b) == a[1] * b[2] < b[1] * a[2]
RLe(a, b) == a[1] * b[2] <= b[1] * a[2]
RMin(a, b) == IF RLe(a, b) THEN a ELSE b
RMax(a, b) == IF RLe(a, b) THEN b ELSE a

(***************************************************************************)
(* Module constants of simulator.py.                                       *)
(***************************************************************************)
TANK_VOLUME == 100
TANK_OUTFLOW == 2
BASIN_VOLUME == 500
BASIN_OUTFLOW == 5

\* Level constants: fractions of TANK_VOLUME, i.e. liters
TANK_VERY_LOW == Rat(1 * TANK_VOLUME, 10)
TANK_LOW == Rat(2 * TANK_VOLUME, 10)
TANK_HIGH == Rat(8 * TANK_VOLUME, 10)
TANK_VERY_HIGH == Rat(9 * TANK_VOLUME, 10)
DEFAULT_LEVELS == <<TANK_VERY_LOW, TANK_LOW, TANK_HIGH, TANK_VERY_HIGH>>

\* The fault channels, in the iteration order of DEFAULT_BREAK_PROBS
ChannelOrder == <<"level_sensor", "vl_sensor", "l_sensor", "h_sensor", "vh_sensor",
                  "outflow_sensor", "color_sensor", "valve_actuator",
                  "fill_actuator", "flush_actuator">>
Channels == {ChannelOrder[i] : i \in DOMAIN ChannelOrder}
DefaultProb == Rat(1, 10000)
DEFAULT_BREAK_PROBS == [ch \in Channels |-> DefaultProb]

\* Alarm codes of DEFAULT_ALARM_DEFS
AlarmCodes == 1..12

(***************************************************************************)
(* PaintMixture                                                            *)
(***************************************************************************)
Pigments == {"cyan", "magenta", "yellow", "black", "white"}

PaintMixture(c, m, y, k, w) ==
    [p \in Pigments |-> CASE p = "cyan" -> c
                           [] p = "magenta" -> m
                           [] p = "yellow" -> y
                           [] p = "black" -> k
                           [] OTHER -> w]

EmptyMixture == PaintMixture(Zero, Zero, Zero, Zero, Zero)

volume(p) ==
    RAdd(RAdd(RAdd(RAdd(p["cyan"], p["magenta"]), p["yellow"]), p["black"]), p["white"])

MixAdd(a, b) == [c \in Pigments |-> RAdd(a[c], b[c])]
\* a subtraction with its operands exchanged
MixSubSwapped(a, b) == [c \in Pigments |-> RSub(b[c], a[c])]
MixSub(a, b) == [c \in Pigments |-> RSub(a[c], b[c])]
MixMul(a, f) == [c \in Pigments |-> RMul(a[c], f)]

(***************************************************************************)
(* The plant built by Simulator.__init__                                   *)
(***************************************************************************)
PigmentOrder == <<"cyan", "magenta", "yellow", "black", "white">>

\* Simulator.tanks: the source tanks, then the mixing basin
tanks == Append(SubSeq(PigmentOrder, 1, NumSources), "mixer")
NumTanks == Len(tanks)
Tanks == {tanks[i] : i \in 1..NumTanks}
Sources == Tanks \ {"mixer"}

\* mixer.connected_from, in the order the constructor appends
connected_from == SelectSeq(tanks, LAMBDA t : t # "mixer")

tank_volume(t) == IF t = "mixer" THEN BASIN_VOLUME ELSE TANK_VOLUME
outflow_rate(t) == IF t = "mixer" THEN BASIN_OUTFLOW ELSE TANK_OUTFLOW
connected_to(t) == IF t = "mixer" THEN "None" ELSE "mixer"

ConstructedPaint(t) ==
    IF t = "mixer" THEN EmptyMixture
    ELSE [p \in Pigments |-> IF p = t THEN Rat(TANK_VOLUME, 1) ELSE Zero]

\* level_refs is None in every construction: the four references are DEFAULT_LEVELS
very_low_ref == DEFAULT_LEVELS[1]
low_ref == DEFAULT_LEVELS[2]
high_ref == DEFAULT_LEVELS[3]
very_high_ref == DEFAULT_LEVELS[4]

(***************************************************************************)
(* Outcomes of the random sources.                                         *)
(***************************************************************************)
\* random() returns a float in [0, 1)
RandomValues == {Zero, Half}

(***************************************************************************)
(* PaintTank sensors.  Each operator is the set of values the call can     *)
(* return for a tank with fault list errs, contents p and capacity cap.    *)
(***************************************************************************)
Broken(errs, ch) == \E i \in DOMAIN errs : errs[i] = ch

get_level(errs, p, cap) ==
    IF ~Broken(errs, "level_sensor")
    THEN {RDiv(volume(p), Rat(cap, 1))}
    ELSE RandomValues

get_valve(errs, v) ==
    IF ~Broken(errs, "valve_actuator") THEN {v} ELSE RandomValues

get_outflow(errs, o, rate) ==
    IF ~Broken(errs, "outflow_sensor")
    THEN {o}
    ELSE {RMul(Rat(rate, 1), r) : r \in RandomValues}

get_vl_readout(errs, p, cap) ==
    IF ~Broken(errs, "vl_sensor")
    THEN {~RLt(very_low_ref, lv) : lv \in get_level(errs, p, cap)}
    ELSE BOOLEAN

get_l_readout(errs, p, cap) ==
    IF ~Broken(errs, "l_sensor")
    THEN {~RLt(low_ref, lv) : lv \in get_level(errs, p, cap)}
    ELSE BOOLEAN

get_h_readout(errs, p, cap) ==
    IF ~Broken(errs, "h_sensor")
    THEN {RLt(high_ref, lv) : lv \in get_level(errs, p, cap)}
    ELSE BOOLEAN

\* the code tests "h_sensor" here, not "vh_sensor"
get_vh_readout(errs, p, cap) ==
    IF ~Broken(errs, "h_sensor")
    THEN {RLt(very_high_ref, lv) : lv \in get_level(errs, p, cap)}
    ELSE BOOLEAN

\* [get_level(), get_vl_readout(), get_l_readout(), get_h_readout(), get_vh_readout()]
\* (index 1..5 here, 0..4 in the code)
read_level_sensors(errs, p, cap) ==
    { <<lv, vl, l, h, vh>> : lv \in get_level(errs, p, cap),
                             vl \in get_vl_readout(errs, p, cap),
                             l \in get_l_readout(errs, p, cap),
                             h \in get_h_readout(errs, p, cap),
                             vh \in get_vh_readout(errs, p, cap) }

(***************************************************************************)
(* The alarm dictionary: a sequence of <<code, time>> in insertion order,  *)
(* as a Python dict keeps it.                                              *)
(***************************************************************************)
InAlarms(a, k) == \E i \in DOMAIN a : a[i][1] = k
AlarmTime(a, k) == a[CHOOSE i \in DOMAIN a : a[i][1] = k][2]
AlarmKeys(a) == {a[i][1] : i \in DOMAIN a}

\* if k not in self.alarms: self.alarms[k] = time.localtime()[1:6]
Raise(a, k, ts) == IF InAlarms(a, k) THEN a ELSE Append(a, <<k, ts>>)
\* del self.alarms[k], reached only when k is in self.alarms
Clear(a, k) == SelectSeq(a, LAMBDA e : e[1] # k)

\* a leak test that also fires at the level of the baseline
LeakConditionNotStrict(lr, cv, base) == RLe(lr[1], base) /\ cv = Zero
\* leak: level below the oldest stored level while the valve reads closed
LeakCondition(lr, cv, base) == RLt(lr[1], base) /\ cv = Zero
\* a stagnation test that asks for a level above the oldest stored level
StagnationConditionStrict(lr, cv, base) == RLt(Zero, cv) /\ RLt(base, lr[1])
\* stagnation: valve open but the level is not below the oldest stored level
StagnationCondition(lr, cv, base) == RLt(Zero, cv) /\ RLe(base, lr[1])
\* an emptying test that leaves the level out
EmptyingConditionValveOnly(lr, cv) == RLt(Zero, cv)
\* emptying: valve open and level above zero
EmptyingCondition(lr, cv) == RLt(Zero, cv) /\ RLt(Zero, lr[1])

\* one pass of "for tank_obj in self.connected_from" from the i-th tank on;
\* ups[i] is the alarm dictionary of the i-th upstream tank
RECURSIVE InflowLoop(_, _, _, _)
InflowLoop(a, ups, i, ts) ==
    IF i > Len(ups) THEN a
    ELSE InflowLoop(IF InAlarms(ups[i], 1) /\ ~InAlarms(a, 2) THEN Raise(a, 2, ts)
                    ELSE IF InAlarms(a, 2) THEN Clear(a, 2)
                    ELSE a,
                    ups, i + 1, ts)

\* the conflict codes 6 and 7 each set or cleared by a test of their own
ConflictTestsApart(a, lr, ts) ==
    LET a6 == IF RLt(lr[1], low_ref) /\ ~lr[3] THEN Raise(a, 6, ts) ELSE Clear(a, 6)
    IN  IF RLt(lr[1], very_low_ref) /\ ~lr[2] THEN Raise(a6, 7, ts) ELSE Clear(a6, 7)
\* the if/elif chain over the conflict codes 4..7
ConflictChain(a, lr, ts) ==
    IF RLt(very_high_ref, lr[1]) /\ ~lr[5] THEN Raise(a, 4, ts)
    ELSE IF InAlarms(a, 4) THEN Clear(a, 4)
    ELSE IF RLt(high_ref, lr[1]) /\ ~lr[4] THEN Raise(a, 5, ts)
    ELSE IF InAlarms(a, 5) THEN Clear(a, 5)
    ELSE IF RLt(lr[1], low_ref) /\ ~lr[3] THEN Raise(a, 6, ts)
    ELSE IF InAlarms(a, 6) THEN Clear(a, 6)
    ELSE IF RLt(lr[1], very_low_ref) /\ ~lr[2] THEN Raise(a, 7, ts)
    ELSE IF InAlarms(a, 7) THEN Clear(a, 7)
    ELSE a

update_level_conflict_alarms(a, name, lr, cv, base, ups, ts) ==
    LET a1 == IF StagnationCondition(lr, cv, base) THEN Raise(a, 3, ts)
              ELSE Clear(a, 3)
        a2 == IF name = "mixer" THEN InflowLoop(a1, ups, 1, ts) ELSE a1
    IN  ConflictChain(a2, lr, ts)

\* reference alarms that take no notice of the name of the tank
RefAlarmsOfAnyTank(a, name, lr, ts) ==
    IF lr[5] THEN Raise(a, 11, ts)
    ELSE LET b == Clear(a, 11) IN
    IF lr[1] = Zero THEN Raise(b, 8, ts)
    ELSE LET c == Clear(b, 8) IN
    IF lr[2] THEN Raise(c, 9, ts)
    ELSE LET d == Clear(c, 9) IN
    IF lr[3] THEN Raise(d, 10, ts)
    ELSE Clear(d, 10)
\* reference alarms without the test for the empty tank
RefAlarmsWithoutEmpty(a, name, lr, ts) ==
    IF lr[5] /\ name = "mixer" THEN Raise(a, 11, ts)
    ELSE LET b == IF name = "mixer" THEN Clear(a, 11) ELSE a IN
    IF lr[2] /\ name # "mixer" THEN Raise(b, 9, ts)
    ELSE LET d == IF name # "mixer" THEN Clear(b, 9) ELSE b IN
    IF lr[3] /\ name # "mixer" THEN Raise(d, 10, ts)
    ELSE IF name # "mixer" THEN Clear(d, 10) ELSE d
update_level_ref_alarms(a, name, lr, ts) ==
    IF lr[5] /\ name = "mixer" THEN Raise(a, 11, ts)
    ELSE LET b == IF name = "mixer" THEN Clear(a, 11) ELSE a IN
    IF lr[1] = Zero THEN Raise(b, 8, ts)
    ELSE LET c == Clear(b, 8) IN
    IF lr[2] /\ name # "mixer" THEN Raise(c, 9, ts)
    ELSE LET d == IF name # "mixer" THEN Clear(c, 9) ELSE c IN
    IF lr[3] /\ name # "mixer" THEN Raise(d, 10, ts)
    ELSE IF name # "mixer" THEN Clear(d, 10) ELSE d

\* lr = level_readouts, cv = current_valve, base = self.level_history[0][1]
update_alarms(a, name, lr, cv, base, ups, ts) ==
    LET a1 == IF LeakCondition(lr, cv, base) THEN Raise(a, 1, ts) ELSE Clear(a, 1)
        a2 == update_level_conflict_alarms(a1, name, lr, cv, base, ups, ts)
        a3 == update_level_ref_alarms(a2, name, lr, ts)
    IN  IF EmptyingCondition(lr, cv) THEN Raise(a3, 12, ts) ELSE Clear(a3, 12)

\* the baseline update_alarms would read if update_storage had run before it
BaselineAfterStore(hist) == hist[2][2]
\* self.level_history[0][1] as update_alarms reads it, before update_storage
Baseline(hist) == hist[1][2]

\* an append that leaves the oldest entry in the list
UpdateStorageNoPop(hist, ts, v) == Append(hist, <<ts, v>>)
\* pop(0) and append((time, value)) on one history list
update_storage(hist, ts, v) == Append(Tail(hist), <<ts, v>>)

(***************************************************************************)
(* The physics of simulate_timestep.                                       *)
(***************************************************************************)
\* an outgoing volume that takes the valve position for the closed part of the valve
OutgoingVolumeInverted(v, rate, iv) == RMul(RMul(RSub(One, v), Rat(rate, 1)), Rat(iv, 1))
\* an outgoing volume that leaves the valve position out
OutgoingVolumeFullyOpen(v, rate, iv) == RMul(Rat(rate, 1), Rat(iv, 1))
\* outgoing_volume = self.valve_ratio * self.outflow_rate * interval
outgoing_volume(v, rate, iv) == RMul(RMul(v, Rat(rate, 1)), Rat(iv, 1))

\* the paint leaving a tank holding p when og is requested
Outgoing(p, og) ==
    IF RLe(volume(p), og) THEN p
    ELSE MixMul(p, RDiv(og, volume(p)))

\* the paint left in the tank
Remaining(p, og) ==
    IF RLe(volume(p), og) THEN EmptyMixture
    ELSE MixSub(p, Outgoing(p, og))

\* no check of the fill level
OverflowKept(p, cap) == p
\* keep an overflown tank at the maximum fill level
Overflow(p, cap) ==
    IF RLt(Rat(cap, 1), volume(p))
    THEN MixMul(p, RDiv(Rat(cap, 1), volume(p)))
    ELSE p

\* a fault injection that stops at the first channel it breaks
InjectOneFault(errs, breaking) ==
    IF breaking = {} THEN errs
    ELSE Append(errs, Head(SelectSeq(ChannelOrder, LAMBDA ch : ch \in breaking)))
\* self.errors after the loop of fault injection has appended the channels of
\* `breaking`, in the order of the dictionary
InjectFaults(errs, breaking) ==
    errs \o SelectSeq(ChannelOrder, LAMBDA ch : ch \in breaking)

\* outcomes of "self.break_probabilities[key] > random()"
BreakOutcomes(prob) == {RLt(r, prob) : r \in RandomValues}

(***************************************************************************)
(* State                                                                   *)
(***************************************************************************)
VARIABLES
    paint,                \* tank -> self.paint
    initial_paint,        \* tank -> self.initial_paint
    valve_ratio,          \* tank -> self.valve_ratio
    outflow,              \* tank -> self.outflow
    level_history,        \* tank -> self.level_history, oldest first
    valve_history,        \* tank -> self.valve_history, oldest first
    alarms,               \* tank -> self.alarms
    errors,               \* tank -> self.errors
    break_probabilities,  \* tank -> self.break_probabilities
    sim_time,             \* Simulator.sim_time
    now,                  \* the wall clock read by time.localtime()
    steps,                \* tank -> number of completed simulate_timestep calls
    calls,                \* number of external calls made so far
    ev,                   \* tank -> level_readouts and current_valve of its latest update_alarms
    out,                  \* tank -> return value of its latest simulate_timestep
    raised,               \* exception raised by the latest call, or "None"
    operated,             \* the tanks the operator addresses in this run
    tick,                 \* the simulation thread: its position in simulate() and its locals
    last_call,            \* the latest external call and the level its device command returned
    stopRequested,        \* Simulator.stopRequested
    late_ticks,           \* number of simulate() calls run() has made after stop()
    devices,              \* the initialised devices: <<device name, index of self.tank>>
    reader,               \* the external thread inside get_alarms(): its position and locals
    aliased,              \* tank -> self.paint is the object self.initial_paint
    missing               \* tank -> the attributes __init__ has not assigned

vars == <<paint, initial_paint, valve_ratio, outflow, level_history, valve_history,
          alarms, errors, break_probabilities, sim_time, now, steps, calls, ev, out,
          raised, operated, tick, last_call, stopRequested, late_ticks, devices, reader, aliased,
          missing>>

\* the marker False of an unused history slot; wall-clock times are >= 1
Unused == 0

\* Break probabilities of one tank.  The code installs DEFAULT_BREAK_PROBS; a test
\* forces them to 1.  A probability of 0 stands for a channel none of whose draws
\* falls below the default probability during the run.
NeverBreaks == [ch \in Channels |-> Zero]
ForcedBreaks == [ch \in Channels |-> One]
MayBreak(S) == [ch \in Channels |-> IF ch \in S THEN DefaultProb ELSE Zero]

\* tank f has fault profile q, the other tanks do not break
OneFaulty(f, q) == [t \in Tanks |-> IF t = f THEN q ELSE NeverBreaks]

\* the simulation thread between two calls of simulate(): i is the index of the tank
\* in self.tanks, outgoing_volume and out are the locals of simulate_timestep, loaded
\* is the value of self.paint read by an augmented assignment that has not stored yet
IdleTick == [pc |-> "idle", i |-> 0, outgoing_volume |-> Zero, out |-> EmptyMixture,
             loaded |-> EmptyMixture]

\* no external call has been made yet; before is the method and the tank of the call
\* that preceded the latest one
NoCall == [op |-> "None", tank |-> "None", arg |-> Zero, returned |-> {},
           before |-> <<"None", "None">>]
\* the record of a call of method op on tank t with argument arg that returned r
Call(op, t, arg, r) == [op |-> op, tank |-> t, arg |-> arg, returned |-> r,
                        before |-> <<last_call.op, last_call.tank>>]

\* no call of get_alarms() is under way; keys is the loop variable of get_alarms,
\* seen the dictionary as it was when the loop began, yielded the number of keys the
\* loop has taken, text_alarm the records put together so far
IdleReader == [pc |-> "idle", tank |-> "None", keys |-> 0, seen |-> <<>>, yielded |-> 0,
               text_alarm |-> <<>>]

\* a history whose slots all hold the entry of the construction
InitHistoryFilled(last) == [i \in 1..HistLen |-> last]
\* [(False, 0)] * 120, and level_history[-1] = (time, level) for the level history
InitHistory(last) ==
    [i \in 1..HistLen |-> IF i = HistLen THEN last ELSE <<Unused, Zero>>]

\* the keyword arguments of PaintTank.__init__ that replace a default
ConstructorArguments == {"level_refs", "break_probs", "alarm_defs"}
\* the attributes __init__ leaves unassigned when it is given the arguments args:
\* each "if ... is None" assigns the default and has no else branch
Unassigned(args) ==
    UNION {IF "level_refs" \in args
           THEN {"very_low_ref", "low_ref", "high_ref", "very_high_ref"} ELSE {},
           IF "break_probs" \in args THEN {"break_probabilities"} ELSE {},
           IF "alarm_defs" \in args THEN {"alarm_definitions"} ELSE {}}
\* Simulator.__init__ gives none of these arguments to any tank
DefaultArguments == [t \in Tanks |-> {}]

\* the plant after construction, in a run of one of the scenarios: a scenario is the
\* break probabilities of the tanks and the set of tanks the operator addresses;
\* arguments holds the choices of the keyword arguments the tanks are built with
InitArgs(scenarios, arguments) ==
    /\ initial_paint = [t \in Tanks |-> ConstructedPaint(t)]
    /\ paint = initial_paint
    /\ valve_ratio = [t \in Tanks |-> Zero]
    /\ outflow = [t \in Tanks |-> Zero]
    /\ now = 1
    /\ level_history = [t \in Tanks |->
          InitHistory(<<now, RDiv(volume(ConstructedPaint(t)), Rat(tank_volume(t), 1))>>)]
    /\ valve_history = [t \in Tanks |-> InitHistory(<<Unused, Zero>>)]
    /\ alarms = [t \in Tanks |-> <<>>]
    /\ errors = [t \in Tanks |-> <<>>]
    /\ \E sc \in scenarios : /\ break_probabilities = sc[1]
                             /\ operated = sc[2]
    /\ sim_time = 0
    /\ steps = [t \in Tanks |-> 0]
    /\ calls = 0
    /\ ev = [t \in Tanks |-> [level_readouts |-> <<Zero, FALSE, FALSE, FALSE, FALSE>>,
                              current_valve |-> Zero]]
    /\ out = [t \in Tanks |-> EmptyMixture]
    /\ raised = "None"
    /\ tick = IdleTick
    /\ last_call = NoCall
    /\ stopRequested = FALSE
    /\ late_ticks = 0
    /\ devices = {}
    /\ reader = IdleReader
    /\ aliased = [t \in Tanks |-> TRUE]
    /\ \E args \in arguments : missing = [t \in Tanks |-> Unassigned(args[t])]

\* the plant after Simulator.__init__
InitWith(scenarios) == InitArgs(scenarios, {DefaultArguments})

(***************************************************************************)
(* self.paint and self.initial_paint are references: __init__ lets both    *)
(* name one PaintMixture object, and an assignment to self.paint makes it  *)
(* name another.                                                           *)
(***************************************************************************)
\* arithmetic that changes the object self.paint names in place
InitialPaintInPlace(ip, al, new) == IF al THEN new ELSE ip
\* the value of self.initial_paint once self.paint has been given the value new:
\* __add__, __sub__ and __mul__ return a new PaintMixture and there is no __iadd__,
\* __isub__ or __imul__, so the object self.initial_paint names keeps its value
InitialPaintAfter(ip, al, new) == ip

\* self.paint of the tanks in T is assigned and holds p[t] afterwards
Rebind(T, p) ==
    /\ initial_paint' = [t \in Tanks |->
          IF t \in T THEN InitialPaintAfter(initial_paint[t], aliased[t], p[t])
          ELSE initial_paint[t]]
    /\ aliased' = [t \in Tanks |-> aliased[t] /\ t \notin T]

(***************************************************************************)
(* PaintTank.simulate_timestep and Simulator.simulate.  A plant state s is *)
(* the record of the fields a timestep can change.                         *)
(***************************************************************************)
Plant == [paint |-> paint, outflow |-> outflow, alarms |-> alarms, errors |-> errors,
          level_history |-> level_history, valve_history |-> valve_history,
          steps |-> steps, ev |-> ev, out |-> out]

\* a fault injection that does not look at self.errors
NotYetBrokenUnchecked(errs, ch) == TRUE
\* "key not in self.errors"
NotYetBroken(errs, ch) == ~Broken(errs, ch)

\* channels whose draw is certain to, respectively can, fall below the probability
MustBreak(errs, probs) ==
    {ch \in Channels : NotYetBroken(errs, ch) /\ BreakOutcomes(probs[ch]) = {TRUE}}
CanBreak(errs, probs) ==
    {ch \in Channels : NotYetBroken(errs, ch) /\ TRUE \in BreakOutcomes(probs[ch])}

\* an add that drops the paint that comes in
AddNothing(p, inflow) == p
\* self.connected_to.add(out)
add(p, inflow) == MixAdd(p, inflow)

\* the sets of channels that can break in one timestep of a tank
Breakings(errs, probs) ==
    {MustBreak(errs, probs) \cup S :
        S \in SUBSET (CanBreak(errs, probs) \ MustBreak(errs, probs))}

\* the end of simulate_timestep: update_alarms and update_storage with the readings
\* they can take, given the outgoing paint o and the tanks' contents p after the flow
TimestepEnd(s, t, errs, o, p, base, ups) ==
    { [paint |-> p,
       outflow |-> [s.outflow EXCEPT ![t] = volume(o)],
       errors |-> [s.errors EXCEPT ![t] = errs],
       alarms |-> [s.alarms EXCEPT ![t] = update_alarms(@, t, lr, cv, base, ups, now)],
       level_history |-> [s.level_history EXCEPT ![t] = update_storage(@, now, hl)],
       valve_history |-> [s.valve_history EXCEPT ![t] = update_storage(@, now, hv)],
       steps |-> [s.steps EXCEPT ![t] = @ + 1],
       ev |-> [s.ev EXCEPT ![t] = [level_readouts |-> lr, current_valve |-> cv]],
       out |-> [s.out EXCEPT ![t] = o]] :
      lr \in read_level_sensors(errs, p[t], tank_volume(t)),
      cv \in get_valve(errs, valve_ratio[t]),
      hl \in get_level(errs, p[t], tank_volume(t)),
      hv \in get_valve(errs, valve_ratio[t]) }

\* the flow of simulate_timestep: the tanks' contents once tank t, holding s.paint[t],
\* has sent o downstream and has been checked for overflow
AfterFlow(pt, t, o, rest) ==
    LET p1 == [pt EXCEPT ![t] = rest]
        p2 == IF connected_to(t) # "None"
              THEN [p1 EXCEPT ![connected_to(t)] = add(@, o)]
              ELSE p1
    IN  [p2 EXCEPT ![t] = Overflow(@, tank_volume(t))]

\* the upstream alarm dictionaries as they were when simulate() was called
UpstreamAlarmsBefore(s) == [i \in 1..Len(connected_from) |-> alarms[connected_from[i]]]
\* tank_obj.alarms of the tanks of self.connected_from, read in plant state s
UpstreamAlarms(s) == [i \in 1..Len(connected_from) |-> s.alarms[connected_from[i]]]

\* simulate_timestep after its fault injection has left the fault list errs
TimestepFlow(s, t, errs, og) ==
    TimestepEnd(s, t, errs, Outgoing(s.paint[t], og),
                AfterFlow(s.paint, t, Outgoing(s.paint[t], og), Remaining(s.paint[t], og)),
                Baseline(s.level_history[t]), UpstreamAlarms(s))

TimestepBody(s, t, iv, errs) ==
    TimestepFlow(s, t, errs, outgoing_volume(valve_ratio[t], outflow_rate(t), iv))

\* the plant states simulate_timestep(interval = iv) on tank t can produce from s
simulate_timestep(s, t, iv) ==
    UNION {TimestepBody(s, t, iv, InjectFaults(s.errors[t], breaking)) :
             breaking \in Breakings(s.errors[t], break_probabilities[t])}

\* "for tank in self.tanks: tank.simulate_timestep(interval)" from the i-th tank on
RECURSIVE ForTanks(_, _, _)
ForTanks(s, i, iv) ==
    IF i > NumTanks THEN {s}
    ELSE UNION {ForTanks(s2, i + 1, iv) : s2 \in simulate_timestep(s, tanks[i], iv)}

\* Simulator.simulate(interval = iv) on tanks that have all their attributes; the
\* wall clock then moves to the next second
Simulate(iv) ==
    /\ now <= MaxTime
    /\ \A t \in Tanks : missing[t] = {}
    /\ \E s \in ForTanks(Plant, 1, iv) :
          /\ paint' = s.paint
          /\ Rebind(Tanks, s.paint)
          /\ outflow' = s.outflow
          /\ alarms' = s.alarms
          /\ errors' = s.errors
          /\ level_history' = s.level_history
          /\ valve_history' = s.valve_history
          /\ steps' = s.steps
          /\ ev' = s.ev
          /\ out' = s.out
    /\ sim_time' = sim_time + iv
    /\ now' = now + 1
    /\ tick.pc = "idle"
    /\ UNCHANGED <<valve_ratio, break_probabilities, calls, raised, operated,
                   tick, last_call, stopRequested, late_ticks, devices, reader, missing>>

(***************************************************************************)
(* The external callers: PaintTank.fill, flush and set_valve               *)
(***************************************************************************)
\* a fill that takes no notice of the level asked for
FillMixtureFull(ip, level, cap) == MixMul(ip, RDiv(Rat(cap, 1), volume(ip)))
\* self.initial_paint * (level * self.tank_volume / self.initial_paint.volume)
FillMixture(ip, level, cap) ==
    MixMul(ip, RDiv(RMul(level, Rat(cap, 1)), volume(ip)))

\* the level the device command (Fill, Flush) reads and returns after the call, when
\* tank t then holds p
Returned(t, p) == {{lv} : lv \in get_level(errors[t], p, tank_volume(t))}

\* self.paint after fill(level)
FilledPaint(t, level) ==
    IF Broken(errors[t], "fill_actuator") THEN paint[t]
    ELSE FillMixture(initial_paint[t], level, tank_volume(t))

\* PaintTank.fill(level) on tank t
fill(t, level) ==
    /\ calls' = calls + 1
    /\ IF ~Broken(errors[t], "fill_actuator") /\ volume(initial_paint[t]) = Zero
       THEN /\ raised' = "ZeroDivisionError"
            /\ UNCHANGED <<paint, initial_paint, aliased>>
            /\ last_call' = Call("fill", t, level, {})
       ELSE /\ raised' = "None"
            /\ paint' = [paint EXCEPT ![t] = FilledPaint(t, level)]
            /\ Rebind(IF Broken(errors[t], "fill_actuator") THEN {} ELSE {t}, paint')
            /\ \E r \in Returned(t, FilledPaint(t, level)) :
                  last_call' = Call("fill", t, level, r)
    /\ UNCHANGED <<valve_ratio, outflow, level_history, valve_history,
                   alarms, errors, break_probabilities, sim_time, now, steps, ev, out,
                   operated, tick, stopRequested, late_ticks, devices, reader, missing>>

Fill(t, level) == calls < MaxCalls /\ fill(t, level)

\* a flush that does not look at self.errors
FlushedPaintUnchecked(t) == EmptyMixture
\* self.paint after flush()
FlushedPaint(t) ==
    IF Broken(errors[t], "flush_actuator") THEN paint[t] ELSE EmptyMixture

\* PaintTank.flush() on tank t
flush(t) ==
    /\ calls' = calls + 1
    /\ raised' = "None"
    /\ paint' = [paint EXCEPT ![t] = FlushedPaint(t)]
    /\ Rebind(IF Broken(errors[t], "flush_actuator") THEN {} ELSE {t}, paint')
    /\ \E r \in Returned(t, FlushedPaint(t)) :
          last_call' = Call("flush", t, Zero, r)
    /\ UNCHANGED <<valve_ratio, outflow, level_history, valve_history,
                   alarms, errors, break_probabilities, sim_time, now, steps, ev, out,
                   operated, tick, stopRequested, late_ticks, devices, reader, missing>>

Flush(t) == calls < MaxCalls /\ flush(t)

\* a clamp without the upper limit
ClampRatioLowerOnly(ratio) == RMax(Zero, ratio)
\* min(1, max(0, ratio))
ClampRatio(ratio) == RMin(One, RMax(Zero, ratio))

\* PaintTank.set_valve(ratio) on tank t
set_valve(t, ratio) ==
    /\ calls' = calls + 1
    /\ raised' = "None"
    /\ valve_ratio' = IF Broken(errors[t], "valve_actuator")
                      THEN valve_ratio
                      ELSE [valve_ratio EXCEPT ![t] = ClampRatio(ratio)]
    /\ last_call' = Call("set_valve", t, ratio, {})
    /\ UNCHANGED <<paint, initial_paint, outflow, level_history, valve_history,
                   alarms, errors, break_probabilities, sim_time, now, steps, ev, out,
                   operated, tick, stopRequested, late_ticks, devices, reader, aliased, missing>>

SetValve(t, ratio) == calls < MaxCalls /\ set_valve(t, ratio)

(***************************************************************************)
(* Spec: the plant driven by simulate(1.0), as Simulator.run drives it,    *)
(* with commands of the operator between the ticks.                        *)
(***************************************************************************)
\* the arguments the operator uses
FillLevels == {One, Half}
ValveInputs == {Rat(-3, 1), Half, Rat(50, 1)}

\* no tank breaks and the operator addresses the first source, the last and the mixer
FaultFree == <<[t \in Tanks |-> NeverBreaks], {tanks[1], tanks[NumSources], "mixer"}>>
\* tank f has fault profile q and is the tank the operator addresses
Faulty(f, q) == <<OneFaulty(f, q), {f}>>

Scenarios ==
    {FaultFree,
     Faulty("cyan", MayBreak({"level_sensor"})),
     Faulty("cyan", MayBreak({"valve_actuator"})),
     Faulty("mixer", MayBreak({"vl_sensor", "l_sensor"})),
     Faulty("cyan", MayBreak({"fill_actuator", "flush_actuator"})),
     Faulty("mixer", MayBreak({"h_sensor", "vh_sensor"}))}

Init == InitWith(Scenarios)

Next ==
    \/ Simulate(1)
    \/ \E t \in operated, level \in FillLevels : Fill(t, level)
    \/ \E t \in operated : Flush(t)
    \/ \E t \in operated, ratio \in ValveInputs : SetValve(t, ratio)

Spec == Init /\ [][Next]_vars

\* the attributes PaintTank.__init__ gives a tank
TankAttributes ==
    {"name", "tank_volume", "tank_outflow", "initial_paint", "connected_to", "from_tanks",
     "connected_from", "paint", "valve_ratio", "outflow", "level_history", "valve_history",
     "break_probabilities", "errors", "level_references", "alarm_definitions", "alarms"}

\* one record of get_alarms: the "{}:{}:{}:{}:{}" fields of the timestamp, the tank
\* name and the text of the alarm code, joined by "/"
AlarmRecord(t, a) == [timestamp |-> a[2], name |-> t, text |-> a[1]]

\* PaintTank.get_alarms(): one record per key of self.alarms, in the order of the
\* dictionary (the order of insertion), each ended by "|"; the text of a record is
\* read from self.DEFAULT_ALARM_DEFS
get_alarms(t) ==
    IF alarms[t] = <<>>
    THEN [raised |-> "None", text |-> <<>>]
    ELSE IF "DEFAULT_ALARM_DEFS" \notin TankAttributes
         THEN [raised |-> "AttributeError", text |-> <<>>]
         ELSE [raised |-> "None",
               text |-> [i \in DOMAIN alarms[t] |-> AlarmRecord(t, alarms[t][i])]]

\* the attribute "alarms" of the device of tank t is read
GetAlarms(t) ==
    /\ calls < MaxCalls
    /\ calls' = calls + 1
    /\ raised' = get_alarms(t).raised
    /\ last_call' = Call("get_alarms", t, Zero, {get_alarms(t).text})
    /\ UNCHANGED <<paint, initial_paint, valve_ratio, outflow, level_history,
                   valve_history, alarms, errors, break_probabilities, sim_time, now,
                   steps, ev, out, operated, tick, stopRequested, late_ticks, devices,
                   reader, aliased, missing>>

(***************************************************************************)
(* SpecAlarms: the plant runs, valves are set and the alarms of the tanks  *)
(* are read between the ticks.                                             *)
(***************************************************************************)
NextAlarms ==
    \/ Simulate(1)
    \/ \E t \in operated, ratio \in ValveInputs : SetValve(t, ratio)
    \/ \E t \in Tanks : GetAlarms(t)

SpecAlarms == Init /\ [][NextAlarms]_vars

(***************************************************************************)
(* SpecStale: the high-level sensor of the mixer can break while the       *)
(* operator sets the valves of the first source and of the mixer.          *)
(***************************************************************************)
HighSensorOfMixer == <<OneFaulty("mixer", MayBreak({"h_sensor"})), {tanks[1], "mixer"}>>

InitStale == InitWith({HighSensorOfMixer})

NextStale ==
    \/ Simulate(1)
    \/ \E t \in operated, ratio \in ValveInputs : SetValve(t, ratio)

SpecStale == InitStale /\ [][NextStale]_vars

(***************************************************************************)
(* SpecRead: get_alarms() runs in the thread of the device server, one     *)
(* bytecode-level step at a time, while the simulation thread runs ticks.  *)
(* No lock guards self.alarms, so a tick can run between any two steps of  *)
(* the reader.                                                             *)
(***************************************************************************)
\* the reader's frame
ReaderFrame == <<paint, initial_paint, valve_ratio, outflow, level_history,
                 valve_history, alarms, errors, break_probabilities, sim_time, now,
                 steps, ev, out, operated, tick, stopRequested, late_ticks, devices,
                 aliased, missing>>

\* get_alarms() ends: it raises exc, or returns text when exc is "None"
EndGetAlarms(t, exc, text) ==
    /\ raised' = exc
    /\ last_call' = Call("get_alarms", t, Zero, IF exc = "None" THEN {text} ELSE {})
    /\ reader' = IdleReader

\* get_alarms() is called on tank t: text_alarm = "" and the for statement takes the
\* first key of self.alarms, or the loop ends at once on an empty dictionary
IterAlarms(t) ==
    /\ calls < MaxCalls /\ reader.pc = "idle"
    /\ calls' = calls + 1
    /\ IF alarms[t] = <<>>
       THEN EndGetAlarms(t, "None", <<>>)
       ELSE /\ reader' = [pc |-> "body", tank |-> t, keys |-> alarms[t][1][1],
                          seen |-> alarms[t], yielded |-> 1, text_alarm |-> <<>>]
            /\ UNCHANGED <<raised, last_call>>
    /\ UNCHANGED ReaderFrame

\* the body of the loop: self.alarms[keys] is looked up for the format() call, then
\* self.DEFAULT_ALARM_DEFS[keys]; after it the for statement takes the next key, and
\* the dictionary iterator raises when the size of the dictionary has changed
LoopGetAlarms ==
    /\ reader.pc # "idle"
    /\ LET t == reader.tank
           a == alarms[t]
       IN  IF reader.pc = "body"
           THEN IF ~InAlarms(a, reader.keys)
                THEN EndGetAlarms(t, "KeyError", <<>>)
                ELSE IF "DEFAULT_ALARM_DEFS" \notin TankAttributes
                THEN EndGetAlarms(t, "AttributeError", <<>>)
                ELSE /\ reader' = [reader EXCEPT !.pc = "next", !.text_alarm =
                           Append(@, AlarmRecord(t, <<reader.keys, AlarmTime(a, reader.keys)>>))]
                     /\ UNCHANGED <<raised, last_call>>
           ELSE IF Len(a) # Len(reader.seen)
                THEN EndGetAlarms(t, "RuntimeError", <<>>)
                ELSE IF reader.yielded = Len(a)
                THEN EndGetAlarms(t, "None", reader.text_alarm)
                ELSE /\ reader' = [reader EXCEPT !.pc = "body",
                                                 !.keys = a[reader.yielded + 1][1],
                                                 !.yielded = @ + 1]
                     /\ UNCHANGED <<raised, last_call>>
    /\ UNCHANGED <<calls, ReaderFrame>>

NextRead ==
    \/ Simulate(1)
    \/ \E t \in operated, ratio \in ValveInputs : reader.pc = "idle" /\ SetValve(t, ratio)
    \/ \E t \in Tanks : IterAlarms(t)
    \/ LoopGetAlarms

SpecRead == Init /\ [][NextRead]_vars

(***************************************************************************)
(* SpecDevice: the device server initialises its PaintTank devices while   *)
(* the simulation thread runs.  A device name is the sequence of the parts *)
(* that "/" separates; a tank object is its index in self.tanks, None is 0.*)
(***************************************************************************)
\* names of devices that have a tank, and of devices that have none
DeviceNames ==
    {<<"epfl", "station1", n>> : n \in Tanks \cup {"Cyan", "mixer2", "station1", ""}}

\* a lookup that falls back on the first tank
TankByNameOrFirst(name) ==
    IF \E i \in 1..NumTanks : tanks[i] = name
    THEN CHOOSE i \in 1..NumTanks : tanks[i] = name
    ELSE 1
\* next((tank for tank in self.tanks if tank.name == name), None)
get_paint_tank_by_name(name) ==
    IF \E i \in 1..NumTanks : tanks[i] = name
    THEN CHOOSE i \in 1..NumTanks : tanks[i] = name /\ \A j \in 1..(i - 1) : tanks[j] # name
    ELSE 0

\* self.get_name().split('/')[-1]
tank_name(dev) == dev[Len(dev)]

\* PaintTank.init_device of the device named dev
init_device(dev) ==
    /\ calls' = calls + 1
    /\ last_call' = Call("init_device", tank_name(dev), Zero, {})
    /\ IF get_paint_tank_by_name(tank_name(dev)) = 0
       THEN raised' = "Exception" /\ UNCHANGED devices
       ELSE /\ raised' = "None"
            /\ devices' = devices \cup {<<dev, get_paint_tank_by_name(tank_name(dev))>>}
    /\ UNCHANGED <<paint, initial_paint, valve_ratio, outflow, level_history,
                   valve_history, alarms, errors, break_probabilities, sim_time, now,
                   steps, ev, out, operated, tick, stopRequested, late_ticks,
                   reader, aliased, missing>>

InitDevice(dev) ==
    /\ calls < MaxCalls
    /\ \A d \in devices : d[1] # dev
    /\ init_device(dev)

NextDevice ==
    \/ Simulate(1)
    \/ \E dev \in DeviceNames : InitDevice(dev)

SpecDevice == Init /\ [][NextDevice]_vars

(***************************************************************************)
(* SpecMixture: the arithmetic of PaintMixture on mixtures with integer    *)
(* components.  The tanks hold the operands; a step computes a sum, a      *)
(* difference or a multiple of them and stores it as the mixer's contents. *)
(***************************************************************************)
\* the operands have integer components and a volume of at most MixVolume
MixVolume == 2
\* number of operations in one run of SpecMixture
MixCalls == 1

IntMixtures ==
    {p \in [Pigments -> {Rat(n, 1) : n \in 0..MixVolume}] : RLe(volume(p), Rat(MixVolume, 1))}
Factors == {One, Rat(2, 1)}

InitMixture ==
    /\ paint \in [Tanks -> IntMixtures]
    /\ initial_paint = [t \in Tanks |-> ConstructedPaint(t)]
    /\ valve_ratio = [t \in Tanks |-> Zero]
    /\ outflow = [t \in Tanks |-> Zero]
    /\ now = 1
    /\ level_history = [t \in Tanks |-> InitHistory(<<now, Zero>>)]
    /\ valve_history = [t \in Tanks |-> InitHistory(<<Unused, Zero>>)]
    /\ alarms = [t \in Tanks |-> <<>>]
    /\ errors = [t \in Tanks |-> <<>>]
    /\ break_probabilities = [t \in Tanks |-> NeverBreaks]
    /\ operated = Tanks
    /\ sim_time = 0
    /\ steps = [t \in Tanks |-> 0]
    /\ calls = 0
    /\ ev = [t \in Tanks |-> [level_readouts |-> <<Zero, FALSE, FALSE, FALSE, FALSE>>,
                              current_valve |-> Zero]]
    /\ out = [t \in Tanks |-> EmptyMixture]
    /\ raised = "None"
    /\ tick = IdleTick
    /\ last_call = NoCall
    /\ stopRequested = FALSE
    /\ late_ticks = 0
    /\ devices = {}
    /\ reader = IdleReader
    /\ aliased = [t \in Tanks |-> FALSE]
    /\ missing = [t \in Tanks |-> {}]

\* the mixer's contents become the mixture result, computed by method op
Compute(op, result) ==
    /\ calls < MixCalls
    /\ calls' = calls + 1
    /\ paint' = [paint EXCEPT !["mixer"] = result]
    /\ Rebind({"mixer"}, paint')
    /\ last_call' = Call(op, "mixer", Zero, {})
    /\ UNCHANGED <<valve_ratio, outflow, level_history, valve_history,
                   alarms, errors, break_probabilities, sim_time, now, steps, ev, out,
                   raised, operated, tick, stopRequested, late_ticks, devices, reader, missing>>

\* PaintMixture.__add__, __sub__ and __mul__
MixtureAdd == \E t, u \in Tanks : Compute("__add__", MixAdd(paint[t], paint[u]))
MixtureSub == \E t, u \in Tanks : Compute("__sub__", MixSub(paint[t], paint[u]))
MixtureMul == \E t \in Tanks, f \in Factors : Compute("__mul__", MixMul(paint[t], f))

NextMixture == MixtureAdd \/ MixtureSub \/ MixtureMul

SpecMixture == InitMixture /\ [][NextMixture]_vars

(***************************************************************************)
(* SpecForced: the test that forces every break probability of one tank to *)
(* 1.0, then runs the plant and reads the tank.                            *)
(***************************************************************************)
\* simulate() may start in SpecForced while now <= ForcedTicks
ForcedTicks == 1

\* the tank whose break probabilities the test sets to 1.0
ForcedTank == tanks[1]

InitForced == InitWith({Faulty(ForcedTank, ForcedBreaks)})

ForcedTick == now <= ForcedTicks /\ Simulate(1)

NextForced ==
    \/ ForcedTick
    \/ \E t \in operated, level \in FillLevels : Fill(t, level)
    \/ \E t \in operated : Flush(t)
    \/ \E t \in operated, ratio \in ValveInputs : SetValve(t, ratio)

SpecForced == InitForced /\ [][NextForced]_vars

(***************************************************************************)
(* SpecConc: Simulator.run in its own thread, the callers of fill, flush   *)
(* and set_valve in theirs.  No lock protects a tank, so the threads       *)
(* interleave between the reads and the writes of self.paint; a statement  *)
(* that reads self.paint and writes it back is a read step and a write     *)
(* step.  Line 514, the overflow check and update_alarms with              *)
(* update_storage are each taken as one step.                              *)
(***************************************************************************)
\* simulate() may start in SpecConc while now <= ConcTicks
ConcTicks == 1

\* no tank breaks; the callers address the first source and the mixer
Unlocked == <<[t \in Tanks |-> NeverBreaks], {tanks[1], "mixer"}>>

InitConc == InitWith({Unlocked})

\* a loop that walks self.tanks from its end
SteppedFromEnd == tanks[NumTanks + 1 - tick.i]
\* self of the running simulate_timestep
Stepped == tanks[tick.i]

Untouched == <<valve_ratio, break_probabilities, calls, operated, last_call,
               stopRequested, late_ticks, devices, reader, missing>>
InitialPaint == <<initial_paint, aliased>>
Records == <<level_history, valve_history, alarms, steps, ev, out>>

\* run(): the next call of simulate() enters its loop over self.tanks
EnterSimulate ==
    /\ tick.pc = "idle"
    /\ tick' = [tick EXCEPT !.pc = "start", !.i = 1]
    /\ UNCHANGED <<paint, outflow, errors, sim_time, now, raised, Records, Untouched,
                   InitialPaint>>

BeginSimulate == now <= ConcTicks /\ EnterSimulate

\* fault injection, outgoing_volume and the test "outgoing_volume >= self.paint.volume";
\* the loop of the fault injection raises when self.break_probabilities is missing
StartTimestep(iv) ==
    /\ tick.pc = "start"
    /\ IF "break_probabilities" \in missing[Stepped]
       THEN /\ raised' = "AttributeError"
            /\ tick' = [tick EXCEPT !.pc = "crashed"]
            /\ UNCHANGED errors
       ELSE /\ \E breaking \in Breakings(errors[Stepped], break_probabilities[Stepped]) :
                  errors' = [errors EXCEPT ![Stepped] = InjectFaults(@, breaking)]
            /\ LET og == outgoing_volume(valve_ratio[Stepped], outflow_rate(Stepped), iv)
               IN  tick' = [tick EXCEPT !.outgoing_volume = og,
                                        !.pc = IF RLe(volume(paint[Stepped]), og)
                                               THEN "take_all" ELSE "take_share"]
            /\ UNCHANGED raised
    /\ UNCHANGED <<paint, outflow, sim_time, now, Records, Untouched, InitialPaint>>

\* out = self.paint
TakeAll ==
    /\ tick.pc = "take_all"
    /\ tick' = [tick EXCEPT !.out = paint[Stepped], !.pc = "store_empty"]
    /\ UNCHANGED <<paint, outflow, errors, sim_time, now, raised, Records, Untouched, InitialPaint>>

\* self.paint = PaintMixture()
StoreEmpty ==
    /\ tick.pc = "store_empty"
    /\ paint' = [paint EXCEPT ![Stepped] = EmptyMixture]
    /\ Rebind({Stepped}, paint')
    /\ tick' = [tick EXCEPT !.pc = "set_outflow"]
    /\ UNCHANGED <<outflow, errors, sim_time, now, raised, Records, Untouched>>

\* out = self.paint * (outgoing_volume / self.paint.volume); the division raises
\* when the tank has been emptied since the test, and the thread ends
TakeShare ==
    /\ tick.pc = "take_share"
    /\ IF volume(paint[Stepped]) = Zero
       THEN /\ raised' = "ZeroDivisionError"
            /\ tick' = [tick EXCEPT !.pc = "crashed"]
       ELSE /\ raised' = raised
            /\ tick' = [tick EXCEPT
                           !.out = MixMul(paint[Stepped],
                                          RDiv(tick.outgoing_volume, volume(paint[Stepped]))),
                           !.pc = "load_paint"]
    /\ UNCHANGED <<paint, outflow, errors, sim_time, now, Records, Untouched, InitialPaint>>

\* self.paint -= out, the read of self.paint
LoadPaint ==
    /\ tick.pc = "load_paint"
    /\ tick' = [tick EXCEPT !.loaded = paint[Stepped], !.pc = "store_rest"]
    /\ UNCHANGED <<paint, outflow, errors, sim_time, now, raised, Records, Untouched, InitialPaint>>

\* self.paint -= out, the write of self.paint
StoreRest ==
    /\ tick.pc = "store_rest"
    /\ paint' = [paint EXCEPT ![Stepped] = MixSub(tick.loaded, tick.out)]
    /\ Rebind({Stepped}, paint')
    /\ tick' = [tick EXCEPT !.pc = "set_outflow"]
    /\ UNCHANGED <<outflow, errors, sim_time, now, raised, Records, Untouched>>

\* self.outflow = out.volume and the test "self.connected_to is not None"
SetOutflow ==
    /\ tick.pc = "set_outflow"
    /\ outflow' = [outflow EXCEPT ![Stepped] = volume(tick.out)]
    /\ tick' = [tick EXCEPT !.pc = IF connected_to(Stepped) # "None"
                                   THEN "add_load" ELSE "overflow"]
    /\ UNCHANGED <<paint, errors, sim_time, now, raised, Records, Untouched, InitialPaint>>

\* self.connected_to.add(out): "self.paint += inflow", the read of self.paint
AddLoad ==
    /\ tick.pc = "add_load"
    /\ tick' = [tick EXCEPT !.loaded = paint[connected_to(Stepped)], !.pc = "add_store"]
    /\ UNCHANGED <<paint, outflow, errors, sim_time, now, raised, Records, Untouched, InitialPaint>>

\* self.connected_to.add(out): "self.paint += inflow", the write of self.paint
AddStore ==
    /\ tick.pc = "add_store"
    /\ paint' = [paint EXCEPT ![connected_to(Stepped)] = add(tick.loaded, tick.out)]
    /\ Rebind({connected_to(Stepped)}, paint')
    /\ tick' = [tick EXCEPT !.pc = "overflow"]
    /\ UNCHANGED <<outflow, errors, sim_time, now, raised, Records, Untouched>>

\* check if tank has overflown
CheckOverflow ==
    /\ tick.pc = "overflow"
    /\ paint' = [paint EXCEPT ![Stepped] = Overflow(@, tank_volume(Stepped))]
    /\ Rebind(IF RLt(Rat(tank_volume(Stepped), 1), volume(paint[Stepped]))
              THEN {Stepped} ELSE {}, paint')
    /\ tick' = [tick EXCEPT !.pc = "finish"]
    /\ UNCHANGED <<outflow, errors, sim_time, now, raised, Records, Untouched>>

\* self.alarms of tank t when update_alarms raises for a missing reference level: a
\* working very-low, low or high sensor reads its reference before any alarm is
\* set; with the three broken, the leak, stagnation and inflow checks have run when
\* line 423 reads self.very_high_ref
AlarmsAtRaise(t) ==
    IF \E ch \in {"vl_sensor", "l_sensor", "h_sensor"} : ~Broken(errors[t], ch)
    THEN {alarms[t]}
    ELSE {LET lr == <<lv, FALSE, FALSE, FALSE, FALSE>>
              base == Baseline(level_history[t])
              a1 == IF LeakCondition(lr, cv, base) THEN Raise(alarms[t], 1, now)
                    ELSE Clear(alarms[t], 1)
              a2 == IF StagnationCondition(lr, cv, base) THEN Raise(a1, 3, now)
                    ELSE Clear(a1, 3)
          IN  IF t = "mixer" THEN InflowLoop(a2, UpstreamAlarms(Plant), 1, now) ELSE a2 :
            lv \in get_level(errors[t], paint[t], tank_volume(t)),
            cv \in get_valve(errors[t], valve_ratio[t])}

\* update_alarms, update_storage and the return; after the last tank simulate()
\* increases sim_time and run() sleeps.  update_alarms raises when the reference
\* levels of the tank are missing, and the thread ends
FinishTimestep(iv) ==
    /\ tick.pc = "finish"
    /\ IF "very_high_ref" \in missing[Stepped]
       THEN /\ raised' = "AttributeError"
            /\ tick' = [tick EXCEPT !.pc = "crashed"]
            /\ \E a \in AlarmsAtRaise(Stepped) : alarms' = [alarms EXCEPT ![Stepped] = a]
            /\ UNCHANGED <<level_history, valve_history, steps, ev, out, sim_time, now>>
       ELSE /\ \E s \in TimestepEnd(Plant, Stepped, errors[Stepped], tick.out, paint,
                                     Baseline(level_history[Stepped]),
                                     UpstreamAlarms(Plant)) :
                  /\ alarms' = s.alarms
                  /\ level_history' = s.level_history
                  /\ valve_history' = s.valve_history
                  /\ steps' = s.steps
                  /\ ev' = s.ev
                  /\ out' = s.out
            /\ IF tick.i = NumTanks
               THEN /\ tick' = IdleTick
                    /\ sim_time' = sim_time + iv
                    /\ now' = now + 1
               ELSE /\ tick' = [IdleTick EXCEPT !.pc = "start", !.i = tick.i + 1]
                    /\ UNCHANGED <<sim_time, now>>
            /\ UNCHANGED raised
    /\ UNCHANGED <<paint, outflow, errors, Untouched, InitialPaint>>

NextConc ==
    \/ BeginSimulate
    \/ StartTimestep(1)
    \/ TakeAll
    \/ StoreEmpty
    \/ TakeShare
    \/ LoadPaint
    \/ StoreRest
    \/ SetOutflow
    \/ AddLoad
    \/ AddStore
    \/ CheckOverflow
    \/ FinishTimestep(1)
    \/ \E t \in operated, level \in FillLevels : Fill(t, level)
    \/ \E t \in operated : Flush(t)
    \/ \E t \in operated, ratio \in ValveInputs : SetValve(t, ratio)

SpecConc == InitConc /\ [][NextConc]_vars

(***************************************************************************)
(* SpecCustom: a plant in which one tank, the first source or the mixer,   *)
(* was constructed with keyword arguments in place of defaults.  The tick  *)
(* runs in the steps of SpecConc and the operator sets valves.             *)
(***************************************************************************)
CustomArguments ==
    {[t \in Tanks |-> IF t = c THEN args ELSE {}] :
        c \in {tanks[1], "mixer"}, args \in SUBSET ConstructorArguments}

InitCustom == InitArgs({Unlocked}, CustomArguments)

NextCustom ==
    \/ BeginSimulate
    \/ StartTimestep(1)
    \/ TakeAll
    \/ StoreEmpty
    \/ TakeShare
    \/ LoadPaint
    \/ StoreRest
    \/ SetOutflow
    \/ AddLoad
    \/ AddStore
    \/ CheckOverflow
    \/ FinishTimestep(1)
    \/ \E t \in operated, ratio \in ValveInputs : SetValve(t, ratio)

SpecCustom == InitCustom /\ [][NextCustom]_vars

(***************************************************************************)
(* SpecBrim: the threads of SpecConc with one source tank kept draining    *)
(* into the mixer and refilled by the operator, until the mixer is full.   *)
(* simulate() is called with a long interval, in which an open source tank *)
(* empties, so that few ticks fill the mixer.                              *)
(***************************************************************************)
\* simulate() may start in SpecBrim while now <= BrimTicks
BrimTicks == 6
\* number of external calls in one run of SpecBrim
BrimCalls == 6
\* the interval of a simulate() call in SpecBrim, in seconds
BrimInterval == 50

\* no tank breaks; the operator addresses the first source
Draining == <<[t \in Tanks |-> NeverBreaks], {tanks[1]}>>

InitBrim == InitWith({Draining})

BrimSimulate == now <= BrimTicks /\ EnterSimulate
BrimOpen == \E t \in operated : calls < BrimCalls /\ set_valve(t, One)
BrimFill == \E t \in operated : calls < BrimCalls /\ fill(t, One)

NextBrim ==
    \/ BrimSimulate
    \/ StartTimestep(BrimInterval)
    \/ TakeAll
    \/ StoreEmpty
    \/ TakeShare
    \/ LoadPaint
    \/ StoreRest
    \/ SetOutflow
    \/ AddLoad
    \/ AddStore
    \/ CheckOverflow
    \/ FinishTimestep(BrimInterval)
    \/ BrimOpen
    \/ BrimFill

SpecBrim == InitBrim /\ [][NextBrim]_vars

(***************************************************************************)
(* SpecFull: the plant driven by simulate() calls with the long interval   *)
(* of SpecBrim, each call run as one step, with every source tank opened   *)
(* and refilled between the calls until the mixer has received more than   *)
(* it holds.                                                               *)
(***************************************************************************)
\* no tank breaks and the operator addresses every source tank
Refilled == <<[t \in Tanks |-> NeverBreaks], Sources>>

InitFull == InitWith({Refilled})

NextFull ==
    \/ Simulate(BrimInterval)
    \/ BrimOpen
    \/ BrimFill

SpecFull == InitFull /\ [][NextFull]_vars

(***************************************************************************)
(* SpecStop: Simulator.run with its test of stopRequested and its call of  *)
(* simulate() as two steps of the simulation thread, stop() called from    *)
(* another thread at any moment, and an operator setting the valve of a    *)
(* source tank and flushing it.  When the loop ends, tick.pc is "exited".  *)
(***************************************************************************)
\* the test of "while not self.stopRequested" may pass in SpecStop while now <= StopTicks
StopTicks == 2

InitStop == InitWith({Draining})

\* a loop test that does not read the flag
KeepsRunningAlways(flag) == TRUE
\* "not self.stopRequested"
KeepsRunning(flag) == ~flag

\* run(): the test of the while loop, after the sleep; the loop ends or goes on to
\* the call of simulate()
TestFlag ==
    /\ tick.pc = "idle"
    /\ IF KeepsRunning(stopRequested)
       THEN now <= StopTicks /\ tick' = [tick EXCEPT !.pc = "call"]
       ELSE tick' = [tick EXCEPT !.pc = "exited"]
    /\ UNCHANGED <<paint, outflow, errors, sim_time, now, raised, Records, Untouched, InitialPaint>>

\* run(): self.simulate(interval=interval) is called
InvokeSimulate ==
    /\ tick.pc = "call"
    /\ tick' = [tick EXCEPT !.pc = "start", !.i = 1]
    /\ late_ticks' = IF stopRequested THEN late_ticks + 1 ELSE late_ticks
    /\ UNCHANGED <<paint, outflow, errors, sim_time, now, raised, Records, initial_paint,
                   valve_ratio, break_probabilities, calls, operated, last_call,
                   stopRequested, devices, reader, aliased, missing>>

\* Simulator.stop(), called while the flag is not yet set
Stop ==
    /\ ~stopRequested
    /\ stopRequested' = TRUE
    /\ UNCHANGED <<paint, outflow, errors, sim_time, now, raised, Records, initial_paint,
                   valve_ratio, break_probabilities, calls, operated, last_call, tick,
                   late_ticks, devices, reader, aliased, missing>>

\* the steps of the simulation thread
RunSteps ==
    \/ TestFlag
    \/ InvokeSimulate
    \/ StartTimestep(1)
    \/ TakeAll
    \/ StoreEmpty
    \/ TakeShare
    \/ LoadPaint
    \/ StoreRest
    \/ SetOutflow
    \/ AddLoad
    \/ AddStore
    \/ CheckOverflow
    \/ FinishTimestep(1)

NextStop ==
    \/ RunSteps
    \/ Stop
    \/ \E t \in operated : SetValve(t, Half)
    \/ \E t \in operated : Flush(t)

SpecStop == InitStop /\ [][NextStop]_vars

\* the scheduler keeps running the simulation thread while it has a step to take
SpecStopFair == SpecStop /\ WF_vars(RunSteps)

(***************************************************************************)
(* Properties                                                              *)
(***************************************************************************)
\* a simulate() call has just run
Ticked == now' # now

TrueLevel(t) == RDiv(volume(paint[t]), Rat(tank_volume(t), 1))
LevelReads(t) == get_level(errors[t], paint[t], tank_volume(t))

RECURSIVE SumMix(_, _)
SumMix(f, ts) == IF ts = <<>> THEN EmptyMixture ELSE MixAdd(f[Head(ts)], SumMix(f, Tail(ts)))

\* C1: at the end of every tick every tank holds at most one of the alarm codes
\* 8 (empty), 9 (very low), 10 (low) and 11 (very high)
C1_OneLevelAlarm ==
    \A t \in Tanks : Cardinality(AlarmKeys(alarms[t]) \cap {8, 9, 10, 11}) <= 1

\* the amount a tank holding p transfers in dt, and o being that amount of p with
\* the proportions of p
TransferOf(p, t, dt) ==
    RMin(volume(p), RMul(RMul(valve_ratio[t], Rat(outflow_rate(t), 1)), Rat(dt, 1)))
IsShareOf(o, p, amount) ==
    /\ volume(o) = amount
    /\ \A c \in Pigments : RMul(o[c], volume(p)) = RMul(p[c], amount)
C2_TransferStep ==
    LET dt == sim_time' - sim_time
        received == MixAdd(paint["mixer"], SumMix(out', connected_from))
    IN  /\ \A t \in Sources :
              /\ outflow'[t] = TransferOf(paint[t], t, dt)
              /\ IsShareOf(out'[t], paint[t], outflow'[t])
              /\ paint'[t] = MixSub(paint[t], out'[t])
        /\ outflow'["mixer"] = TransferOf(received, "mixer", dt)
        /\ IsShareOf(out'["mixer"], received, outflow'["mixer"])
        /\ RLe(volume(received), Rat(BASIN_VOLUME, 1))
              => paint'["mixer"] = MixSub(received, out'["mixer"])
        /\ (/\ paint["cyan"] = ConstructedPaint("cyan")
            /\ valve_ratio["cyan"] = One
            /\ dt = 1)
              => /\ volume(paint'["cyan"]) = Rat(98, 1)
                 /\ out'["cyan"] = MixMul(ConstructedPaint("cyan"), Rat(2, 100))
\* C2: a timestep moves min(volume, valve_ratio * outflow_rate * dt) out of a tank,
\* in proportion to its components, records it as the outflow and adds it component
\* for component to the downstream tank; a full cyan tank with its valve fully open
\* ends a 1-second tick at 98, and 2 of pure cyan have gone to the mixer
C2_Transfer == [][Ticked => C2_TransferStep]_vars
\* the plant after the first tick of a full cyan tank with its valve fully open
C2_Witness ==
    /\ paint["cyan"] = MixMul(ConstructedPaint("cyan"), Rat(98, 100))
    /\ outflow["cyan"] = Rat(2, 1)
    /\ paint["mixer"] = MixMul(ConstructedPaint("cyan"), Rat(2, 100))

\* C3: after a mixer timestep alarm 2 is on the mixer exactly when some upstream
\* tank carries alarm 1
C3_InflowIffLeak ==
    steps["mixer"] > 0 =>
        (InAlarms(alarms["mixer"], 2) <=> \E t \in Sources : InAlarms(alarms[t], 1))

\* the leak alarm of every tank after a simulate() step
C4_LeakStep ==
    \A t \in Tanks :
        /\ InAlarms(alarms'[t], 1) <=>
              (/\ RLt(ev'[t].level_readouts[1], level_history[t][1][2])
               /\ ev'[t].current_valve = Zero)
        /\ InAlarms(alarms'[t], 1) /\ ~InAlarms(alarms[t], 1)
              => AlarmTime(alarms'[t], 1) = now
\* C4: after a tick alarm 1 is on a tank exactly when the level read in that tick was
\* strictly below the oldest level_history entry and the valve read exactly 0; a
\* newly raised alarm 1 carries the time of that tick
C4_LeakIffBelowBaseline == [][Ticked => C4_LeakStep]_vars
\* a tank whose latest tick read a closed valve and a level below the level it had
\* HistLen ticks before, and which carries the leak alarm of that tick
C4_Witness ==
    \E t \in Tanks : /\ steps[t] >= HistLen
                     /\ ev[t].current_valve = Zero
                     /\ InAlarms(alarms[t], 1)
                     /\ AlarmTime(alarms[t], 1) = now - 1

\* C5: with working sensors veryLow and low read true exactly at or below 0.1 and 0.2
\* of the capacity, high and veryHigh exactly above 0.8 and 0.9 of it
C5_ThresholdFractions ==
    \A t \in Tanks :
        (\A ch \in {"level_sensor", "vl_sensor", "l_sensor", "h_sensor", "vh_sensor"} :
            ~Broken(errors[t], ch))
        => /\ get_vl_readout(errors[t], paint[t], tank_volume(t))
                 = {RLe(TrueLevel(t), Rat(1, 10))}
           /\ get_l_readout(errors[t], paint[t], tank_volume(t))
                 = {RLe(TrueLevel(t), Rat(2, 10))}
           /\ get_h_readout(errors[t], paint[t], tank_volume(t))
                 = {RLt(Rat(8, 10), TrueLevel(t))}
           /\ get_vh_readout(errors[t], paint[t], tank_volume(t))
                 = {RLt(Rat(9, 10), TrueLevel(t))}

\* reads is what a sensor on channel ch with comparison Compare returns
OwnChannel(reads, t, ch, Compare(_)) ==
    reads = IF Broken(errors[t], ch) THEN BOOLEAN
            ELSE {Compare(lv) : lv \in LevelReads(t)}
\* C6: a threshold sensor returns its comparison while its own channel works and a
\* random boolean only when its own channel is broken
C6_OwnChannelOnly ==
    \A t \in Tanks :
        /\ OwnChannel(get_vl_readout(errors[t], paint[t], tank_volume(t)), t, "vl_sensor",
                      LAMBDA lv : ~RLt(very_low_ref, lv))
        /\ OwnChannel(get_l_readout(errors[t], paint[t], tank_volume(t)), t, "l_sensor",
                      LAMBDA lv : ~RLt(low_ref, lv))
        /\ OwnChannel(get_h_readout(errors[t], paint[t], tank_volume(t)), t, "h_sensor",
                      LAMBDA lv : RLt(high_ref, lv))
        /\ OwnChannel(get_vh_readout(errors[t], paint[t], tank_volume(t)), t, "vh_sensor",
                      LAMBDA lv : RLt(very_high_ref, lv))

\* the timestamps of the alarms a step keeps
C7_TimestampStep ==
    \A t \in Tanks : \A k \in AlarmCodes :
        InAlarms(alarms[t], k) /\ InAlarms(alarms'[t], k)
            => AlarmTime(alarms'[t], k) = AlarmTime(alarms[t], k)
\* C7: an alarm code present before and after a tick keeps its timestamp
C7_TimestampKept == [][C7_TimestampStep]_vars

\* the fault list of a tank only grows at its end
IsPrefix(a, b) == Len(a) <= Len(b) /\ SubSeq(b, 1, Len(a)) = a
NoDuplicates(a) == \A i, j \in DOMAIN a : a[i] = a[j] => i = j
C8_FaultsStep ==
    \A t \in Tanks : IsPrefix(errors[t], errors'[t]) /\ NoDuplicates(errors'[t])
\* C8: no step removes a fault from a tank's fault list, and no channel is listed twice
C8_FaultsPermanent == [][C8_FaultsStep]_vars
\* a fault that has outlived a later tick and an operator command
C8_Witness ==
    \E t \in Tanks : /\ Len(errors[t]) = 2
                     /\ calls > 0
                     /\ steps[t] = MaxTime

\* the channels in self.errors
ErrorSet(t) == {errors[t][i] : i \in DOMAIN errors[t]}
\* C9: once a tank whose ten break probabilities are 1.0 has run one simulate_timestep,
\* its fault list holds all ten channels, and from then on get_level returns values
\* in [0, 1] that are not bound to volume / capacity
C9_ForcedBreaks ==
    \A t \in Tanks :
        (break_probabilities[t] = ForcedBreaks /\ steps[t] >= 1)
        => /\ ErrorSet(t) = Channels
           /\ Cardinality(Channels) = 10
           /\ \A lv \in LevelReads(t) : RLe(Zero, lv) /\ RLe(lv, One)
           /\ \E lv \in LevelReads(t) : lv # TrueLevel(t)
\* the forced tank after its tick, an operator command and a stored level that is
\* not its true level
C9_Witness ==
    /\ steps[ForcedTank] >= 1
    /\ ErrorSet(ForcedTank) = Channels
    /\ calls > 0
    /\ level_history[ForcedTank][HistLen][2] # TrueLevel(ForcedTank)

\* no component of a mixture is negative, and a write of self.paint by the
\* simulation thread finds the contents it has read
NonNegative(p) == \A c \in Pigments : RLe(Zero, p[c])
C10_AtomicStep ==
    /\ \A t \in Tanks : NonNegative(paint'[t])
    /\ (tick.pc = "store_empty" /\ tick'.pc # "store_empty") => paint[Stepped] = tick.out
    /\ (tick.pc = "store_rest" /\ tick'.pc # "store_rest") => paint[Stepped] = tick.loaded
    /\ (tick.pc = "add_store" /\ tick'.pc # "add_store")
          => paint[connected_to(Stepped)] = tick.loaded
\* C10: with fill and flush called while the simulation thread is inside
\* simulate_timestep, no mixture ever has a negative component, and the simulation
\* thread never writes to self.paint a mixture it computed from contents that a call
\* has replaced in the meantime
C10_AtomicCalls == [][C10_AtomicStep]_vars

\* C11: every value get_level can return to a reader is in [0, 1], in every state a
\* reader can observe, also in the middle of a tick
C11_LevelInRange ==
    \A t \in Tanks : \A lv \in LevelReads(t) : RLe(Zero, lv) /\ RLe(lv, One)

\* the step is a call of method op on tank t
CallStep(op, t) == calls' = calls + 1 /\ last_call'.op = op /\ last_call'.tank = t
\* the latest call was a call of method op on tank t
LastCall(op, t) == last_call.op = op /\ last_call.tank = t
ActuatorsWork(t) ==
    ~Broken(errors[t], "fill_actuator") /\ ~Broken(errors[t], "flush_actuator")
\* mixture p has the pigment ratio of mixture q
SameRatio(p, q) == \A c \in Pigments : RMul(p[c], volume(q)) = RMul(q[c], volume(p))
C12_Step ==
    \A t \in Sources :
        ActuatorsWork(t)
        => /\ (LastCall("fill", t) /\ CallStep("flush", t)) => volume(paint'[t]) = Zero
           /\ (LastCall("flush", t) /\ CallStep("fill", t) /\ last_call'.arg = Half)
                 => /\ RMul(volume(paint'[t]), Rat(2, 1)) = Rat(tank_volume(t), 1)
                    /\ SameRatio(paint'[t], initial_paint[t])
\* C12: on a source tank with working fill and flush actuators, flush() after fill()
\* leaves volume 0, and fill(0.5) after flush() leaves half the capacity in the
\* pigment ratio of the initial mixture
C12_FillFlush == [][C12_Step]_vars
\* a source tank right after flush() and fill(0.5), holding half its capacity
C12_Witness ==
    \E t \in Sources :
        /\ ActuatorsWork(t)
        /\ LastCall("fill", t) /\ last_call.arg = Half
        /\ last_call.before = <<"flush", t>>
        /\ paint[t] = MixMul(initial_paint[t], Half)

\* a fill or flush call on any tank raises nothing and returns a level the tank reads
\* after the call
C13_Step ==
    \A t \in Tanks :
        (CallStep("fill", t) \/ CallStep("flush", t))
        => /\ raised' = "None"
           /\ last_call'.returned \in Returned(t, paint'[t])
\* C13: Fill and Flush on any tank, the mixer included, in any reachable state
\* complete without raising an error and return the tank's resulting level
C13_FillFlushReturn == [][C13_Step]_vars

\* a tick leaves a source tank with a closed valve and no fault as it was
C14_Step ==
    \A t \in Sources :
        (valve_ratio[t] = Zero /\ errors'[t] = <<>>)
        => /\ paint'[t] = paint[t]
           /\ outflow'[t] = Zero
           /\ get_level(errors'[t], paint'[t], tank_volume(t)) = {TrueLevel(t)}
           /\ level_history'[t][HistLen][2] = TrueLevel(t)
\* C14: simulate_timestep leaves the mixture, and so the level, of a source tank with
\* valve_ratio 0 and no broken channel unchanged, and its outflow is 0
C14_ClosedValveFrame == [][Ticked => C14_Step]_vars
\* a source tank that was refilled to half and has then kept that level, with its
\* valve closed, through every tick of the run
C14_Witness ==
    \E t \in Sources :
        /\ valve_ratio[t] = Zero /\ errors[t] = <<>>
        /\ steps[t] = MaxTime
        /\ LastCall("fill", t)
        /\ paint[t] = MixMul(initial_paint[t], Half)
        /\ \A i \in 1..HistLen : level_history[t][i][2] = Half

\* the fields of the tanks a call can be seen to change
TankFields == <<paint, valve_ratio, outflow, alarms, level_history, valve_history, errors>>
C15_Step ==
    \A t \in Tanks :
        (\/ CallStep("fill", t) /\ Broken(errors[t], "fill_actuator")
         \/ CallStep("flush", t) /\ Broken(errors[t], "flush_actuator")
         \/ CallStep("set_valve", t) /\ Broken(errors[t], "valve_actuator"))
        => UNCHANGED TankFields
\* C15: fill() with the fill actuator broken, flush() with the flush actuator broken
\* and set_valve() with the valve actuator broken leave the mixture, valve_ratio,
\* outflow, alarm map, histories and fault list of every tank unchanged
C15_BrokenActuatorFrame == [][C15_Step]_vars
\* a full tank with a broken flush actuator whose latest call was flush()
C15_Witness ==
    \E t \in Tanks :
        /\ LastCall("flush", t)
        /\ Broken(errors[t], "flush_actuator")
        /\ volume(paint[t]) = Rat(tank_volume(t), 1)

\* ratio brought into [0, 1]
Clamped(ratio) == IF RLt(ratio, Zero) THEN Zero ELSE IF RLt(One, ratio) THEN One ELSE ratio
\* C16: every valve_ratio is in [0, 1], and a tank whose valve actuator works and
\* whose set_valve(r) was the latest call has valve_ratio min(1, max(0, r)): 1 for
\* r = 50 and 0 for r = -3
C16_ValveInRange ==
    \A t \in Tanks :
        /\ RLe(Zero, valve_ratio[t]) /\ RLe(valve_ratio[t], One)
        /\ (LastCall("set_valve", t) /\ ~Broken(errors[t], "valve_actuator"))
              => /\ valve_ratio[t] = Clamped(last_call.arg)
                 /\ last_call.arg = Rat(50, 1) => valve_ratio[t] = One
                 /\ last_call.arg = Rat(-3, 1) => valve_ratio[t] = Zero
\* a tank after set_valve(50) and a tick that has drained it at its full rate
C16_Witness ==
    \E t \in Tanks :
        /\ LastCall("set_valve", t) /\ last_call.arg = Rat(50, 1)
        /\ ~Broken(errors[t], "valve_actuator")
        /\ valve_ratio[t] = One
        /\ outflow[t] = Rat(outflow_rate(t), 1)

\* reading the alarms of a tank gives one record per alarm of its map, the records
\* in ascending order of their codes
C17_Step ==
    \A t \in Tanks :
        CallStep("get_alarms", t)
        => /\ raised' = "None"
           /\ \E text \in last_call'.returned :
                 /\ Len(text) = Len(alarms[t])
                 /\ \A k \in AlarmCodes :
                       InAlarms(alarms[t], k)
                       <=> \E i \in DOMAIN text :
                              text[i] = AlarmRecord(t, <<k, AlarmTime(alarms[t], k)>>)
                 /\ \A i, j \in DOMAIN text : i < j => text[i].text < text[j].text
\* C17: get_alarms() of a tank returns, for every alarm map, one record per active
\* alarm (timestamp, tank name, alarm text), the records in ascending order of the
\* alarm codes whatever the order in which the alarms were raised
C17_AlarmsRendered == [][C17_Step]_vars

\* history list hist has the fixed length and runs from the oldest entry to the newest
RingBuffer(hist) ==
    /\ Len(hist) = HistLen
    /\ \A i, j \in DOMAIN hist : i < j => hist[i][1] <= hist[j][1]
\* list after is list before without its entry at index 0 and with <<ts, v>>, for a
\* reading v of values, as its newest entry
Shifted(before, after, ts, values) ==
    /\ SubSeq(after, 1, HistLen - 1) = SubSeq(before, 2, HistLen)
    /\ after[HistLen][1] = ts
    /\ after[HistLen][2] \in values
C18_Step ==
    \A t \in Tanks :
        /\ RingBuffer(level_history[t]) /\ RingBuffer(valve_history[t])
        /\ RingBuffer(level_history'[t]) /\ RingBuffer(valve_history'[t])
        /\ Ticked
             => /\ Shifted(level_history[t], level_history'[t], now,
                           get_level(errors'[t], paint'[t], tank_volume(t)))
                /\ Shifted(valve_history[t], valve_history'[t], now,
                           get_valve(errors'[t], valve_ratio[t]))
\* C18: level_history and valve_history of every tank hold exactly HistLen entries
\* (120 in the plant) in every state; every simulate_timestep removes the entry at
\* index 0 and appends the current level and valve reading as the newest entry, so
\* the entries run from the oldest to the newest
C18_RingBuffers == [][C18_Step]_vars
\* a tank whose histories have been shifted through completely: every entry dates
\* from a tick and the level entries differ
C18_Witness ==
    \E t \in Tanks :
        /\ steps[t] > HistLen
        /\ level_history[t][1][1] = now - HistLen
        /\ valve_history[t][1][1] = now - HistLen
        /\ level_history[t][HistLen][1] = now - 1
        /\ level_history[t][1][2] # level_history[t][HistLen][2]

\* run() calls simulate() in this step
Invoked == tick.pc = "call" /\ tick'.pc = "start"
C19_StrictStep == stopRequested => ~Invoked
\* C19 as stated: once stop() has been called, run() does not call simulate() again
C19_NoTickAfterStop == [][C19_StrictStep]_vars
C19_Step ==
    /\ late_ticks' <= 1
    /\ (stopRequested /\ Invoked) => late_ticks = 0
    /\ (stopRequested /\ tick'.pc = "call") => tick.pc = "call"
    /\ tick.pc = "exited" => tick'.pc = "exited"
\* C19, amended: once stop() has been called, the test of the run loop passes no
\* more and a loop that has ended stays ended; run() calls simulate() after the stop
\* request at most once, in a loop iteration whose test had read the flag before it
C19_AtMostOneLateTick == [][C19_Step]_vars
\* the loop has ended after a tick that began after the stop request and ran through
C19_Witness ==
    /\ stopRequested /\ late_ticks = 1
    /\ tick.pc = "exited"
    /\ \A t \in Tanks : steps[t] = now - 1

InTick == tick.pc \notin {"idle", "call", "exited", "crashed"}
C20_Step ==
    (stopRequested /\ InTick /\ ~InTick')
    => /\ tick'.pc = "idle"
       /\ \A t \in Tanks : steps'[t] = now
\* C20, no cancellation: a tick in progress once stop() has been called ends only
\* when simulate_timestep has run on every tank
C20_TickRunsThrough == [][C20_Step]_vars
\* C20, termination: under a fair scheduler the run loop ends after stop()
C20_LoopEnds == stopRequested ~> tick.pc \in {"exited", "crashed"}

\* alarm 2 of the mixer after the loop over its upstream tanks from the i-th on:
\* has2 says whether the mixer carries alarm 2, leaks[i] whether the i-th upstream
\* tank carries alarm 1
RECURSIVE InflowAfter(_, _, _)
InflowAfter(has2, leaks, i) ==
    IF i > Len(leaks) THEN has2
    ELSE InflowAfter(leaks[i] /\ ~has2, leaks, i + 1)
\* whether the upstream tanks carry alarm 1 in the alarm dictionaries a
Leaks(a) == [i \in 1..Len(connected_from) |-> InAlarms(a[connected_from[i]], 1)]
C21_PreStep ==
    InAlarms(alarms'["mixer"], 2) <=> InflowAfter(InAlarms(alarms["mixer"], 2), Leaks(alarms), 1)
\* C21 as stated: the uncontrolled-inflow check of the mixer in a tick uses the alarm
\* dictionary each source tank had before its alarm evaluation of that tick
C21_PreUpdateRead == [][Ticked => C21_PreStep]_vars
C21_PostStep ==
    InAlarms(alarms'["mixer"], 2) <=> InflowAfter(InAlarms(alarms["mixer"], 2), Leaks(alarms'), 1)
\* C21, amended: the uncontrolled-inflow check of the mixer in a tick uses the alarm
\* dictionary each source tank has after its alarm evaluation of that same tick
C21_PostUpdateRead == [][Ticked => C21_PostStep]_vars
\* the mixer carries an alarm 2 raised in the tick in which the last source tank
\* raised its alarm 1
C21_Witness ==
    /\ InAlarms(alarms["mixer"], 2) /\ AlarmTime(alarms["mixer"], 2) = now - 1
    /\ InAlarms(alarms[tanks[NumSources]], 1)
    /\ AlarmTime(alarms[tanks[NumSources]], 1) = now - 1

\* simulate_timestep has returned on the i-th tank in this step
Returns(i) == steps'[tanks[i]] # steps[tanks[i]]
C22_Step ==
    /\ \A i \in 1..NumTanks :
          Returns(i)
          => /\ steps'[tanks[i]] = steps[tanks[i]] + 1
             /\ \A j \in 1..NumTanks : j # i => ~Returns(j)
             /\ \A j \in 1..(i - 1) : steps[tanks[j]] = steps[tanks[i]] + 1
             /\ \A j \in (i + 1)..NumTanks : steps[tanks[j]] = steps[tanks[i]]
    /\ sim_time' # sim_time
          => /\ Returns(NumTanks)
             /\ sim_time' = sim_time + BrimInterval
    /\ tick'.pc = "idle"
          => /\ \A t \in Tanks : steps'[t] = now' - 1
             /\ sim_time' = (now' - 1) * BrimInterval
\* C22: a simulate(interval) call runs simulate_timestep once on every tank, in the
\* order of self.tanks (the sources in the order cyan, magenta, yellow, black, white,
\* then the mixer), and then adds interval to sim_time; after n calls with the same
\* interval sim_time is n * interval
C22_OncePerTankInOrder == [][C22_Step]_vars
\* the plant after the last simulate() call of the run
C22_Witness ==
    /\ tick.pc = "idle"
    /\ \A t \in Tanks : steps[t] = BrimTicks
    /\ sim_time = BrimTicks * BrimInterval

\* C23: no simulate_timestep raises an error, whatever state its tank is in: empty
\* with the valve open or closed, full, asked for at least the volume it holds, or,
\* for the mixer, above its capacity
C23_TimestepDefined == tick.pc # "crashed"

C24_Step ==
    \A dev \in DeviceNames :
        CallStep("init_device", tank_name(dev))
        => IF tank_name(dev) \in Tanks
           THEN /\ raised' = "None"
                /\ \E d \in devices' : d[1] = dev /\ tanks[d[2]] = tank_name(dev)
           ELSE /\ raised' = "Exception"
                /\ devices' = devices
\* C24: the lookup of a tank by name yields the tank of that name for every tank of
\* the plant; for any other name it yields no tank, and init_device then fails at
\* once with an error and the device gets no tank
C24_ResolveByName == [][C24_Step]_vars
\* a device of the mixer has its tank, and the device of an unknown name has failed
C24_Witness ==
    /\ \E d \in devices : tank_name(d[1]) = "mixer" /\ tanks[d[2]] = "mixer"
    /\ last_call.op = "init_device" /\ last_call.tank = "mixer2"
    /\ raised = "Exception"

MixtureLaws(a, b, c) ==
    /\ MixSub(MixAdd(a, b), b) = a
    /\ MixMul(a, One) = a
    /\ MixAdd(a, b) = MixAdd(b, a)
    /\ MixAdd(MixAdd(a, b), c) = MixAdd(a, MixAdd(b, c))
C25_Step ==
    /\ MixtureLaws(paint[tanks[1]], paint[tanks[2]], paint["mixer"])
    /\ MixtureLaws(paint'["mixer"], paint'[tanks[1]], paint'[tanks[2]])
    /\ \A t \in Sources : paint'[t] = paint[t]
\* C25: on mixtures with integer components (a+b)-b = a, a*1 = a, a+b = b+a and
\* (a+b)+c = a+(b+c) hold component for component, and an addition, a subtraction
\* or a scaling leaves its operands as they were
C25_MixtureAlgebra == [][C25_Step]_vars
\* a difference with a negative component has been computed from two operands that
\* are still in their tanks
C25_Witness ==
    /\ last_call.op = "__sub__"
    /\ \E c \in Pigments : RLt(paint["mixer"][c], Zero)
    /\ \E t, u \in Sources : t # u /\ paint["mixer"] = MixSub(paint[t], paint[u])

\* the conflict condition of code k on the readings lr: the level is beyond the
\* reference of the code and the sensor of that reference does not say so
Conflict(k, lr) ==
    CASE k = 4 -> RLt(very_high_ref, lr[1]) /\ ~lr[5]
      [] k = 5 -> RLt(high_ref, lr[1]) /\ ~lr[4]
      [] k = 6 -> RLt(lr[1], low_ref) /\ ~lr[3]
      [] k = 7 -> RLt(lr[1], very_low_ref) /\ ~lr[2]
\* code k leaves, respectively enters or leaves, the alarms of tank t in this step
Removed(t, k) == InAlarms(alarms[t], k) /\ ~InAlarms(alarms'[t], k)
Changed(t, k) == InAlarms(alarms[t], k) # InAlarms(alarms'[t], k)
C26_Step ==
    \A t \in Tanks :
        /\ Cardinality({k \in 4..7 : Changed(t, k)}) <= 1
        /\ \A k \in 5..7 :
              Removed(t, k)
              => \A j \in 4..(k - 1) :
                    ~Conflict(j, ev'[t].level_readouts) /\ ~Removed(t, j)
Within(p, t) == RLe(Zero, volume(p)) /\ RLe(volume(p), Rat(tank_volume(t), 1))
C27_Step ==
    LET received == MixAdd(paint["mixer"], SumMix(out', connected_from))
        rest == MixSub(received, out'["mixer"])
    IN  /\ \A t \in Tanks : Within(paint'[t], t)
        /\ IF RLt(Rat(BASIN_VOLUME, 1), volume(rest))
           THEN /\ volume(paint'["mixer"]) = Rat(BASIN_VOLUME, 1)
                /\ SameRatio(paint'["mixer"], rest)
           ELSE paint'["mixer"] = rest
C28_TrueStep ==
    \A t \in Sources : InAlarms(alarms'[t], 8) <=> volume(paint'[t]) = Zero
\* C28 as stated: after every tick alarm 8 is on a source tank exactly when the
\* tank holds no paint, with a working and with a broken level sensor
C28_EmptyIffNoPaint == [][Ticked => C28_TrueStep]_vars
C28_ReadStep ==
    \A t \in Sources :
        /\ InAlarms(alarms'[t], 8) <=> ev'[t].level_readouts[1] = Zero
        /\ ~Broken(errors'[t], "level_sensor")
              => (InAlarms(alarms'[t], 8) <=> volume(paint'[t]) = Zero)
\* C28, amended: after every tick alarm 8 is on a source tank exactly when the level
\* read in that tick's alarm evaluation was 0; with a working level sensor that is
\* exactly when the tank holds no paint
C28_EmptyIffReadZero == [][Ticked => C28_ReadStep]_vars
\* an empty source tank without alarm 8: its broken level sensor read a level above 0
C28_Witness ==
    \E t \in Sources :
        /\ steps[t] > 0
        /\ Broken(errors[t], "level_sensor")
        /\ volume(paint[t]) = Zero
        /\ ev[t].level_readouts[1] # Zero
        /\ ~InAlarms(alarms[t], 8)

C29_Step ==
    \A t \in Tanks :
        InAlarms(alarms'[t], 3)
        <=> /\ RLt(Zero, ev'[t].current_valve)
            /\ RLe(level_history[t][1][2], ev'[t].level_readouts[1])
\* C29: after every tick alarm 3 is on a tank exactly when the valve read in that
\* tick's evaluation was above 0 and the level read in it was at or above the oldest
\* level_history entry
C29_StagnationIffNotFalling == [][Ticked => C29_Step]_vars
\* a tank without faults whose latest tick raised alarm 3 on a level above 0, with
\* the level of an earlier tick as the oldest entry
C29_Witness ==
    \E t \in Tanks :
        /\ steps[t] > HistLen /\ errors[t] = <<>>
        /\ InAlarms(alarms[t], 3) /\ AlarmTime(alarms[t], 3) = now - 1
        /\ RLt(Zero, ev[t].level_readouts[1])

\* update_level_ref_alarms returns before its last test on these readings
ShortCircuited(t, lr) ==
    \/ lr[5] /\ t = "mixer"
    \/ lr[1] = Zero
    \/ lr[2] /\ t # "mixer"
    \/ lr[3] /\ t # "mixer"
C30_Step ==
    \A t \in Tanks :
        InAlarms(alarms'[t], 12)
        <=> /\ RLt(Zero, ev'[t].current_valve)
            /\ RLt(Zero, ev'[t].level_readouts[1])
\* C30: after every tick alarm 12 is on a tank exactly when the valve read in that
\* tick's evaluation was above 0 and the level read in it was above 0, also in the
\* ticks whose very-high, empty, very-low or low check returned early
C30_EmptyingIffDraining == [][Ticked => C30_Step]_vars
\* the latest tick of a tank raised alarm 12 though its reference check returned
\* early
C30_Witness ==
    \E t \in Tanks :
        /\ ShortCircuited(t, ev[t].level_readouts)
        /\ InAlarms(alarms[t], 12) /\ AlarmTime(alarms[t], 12) = now - 1

\* the entries of hist that update_storage wrote during the k-th tick: the wall clock
\* of Spec shows k during the k-th call of simulate()
AppendedAtTick(hist, k) == {i \in 1..(HistLen - 1) : hist[i][1] = k}
C31_Step ==
    \A t \in Tanks :
        steps[t] >= HistLen =>
            /\ AppendedAtTick(level_history[t], steps[t] + 1 - HistLen) = {1}
            /\ LET base == level_history[t][1][2]
                   lr == ev'[t].level_readouts
                   cv == ev'[t].current_valve
               IN  /\ InAlarms(alarms'[t], 1) <=> (RLt(lr[1], base) /\ cv = Zero)
                   /\ InAlarms(alarms'[t], 3) <=> (RLt(Zero, cv) /\ RLe(base, lr[1]))
            /\ level_history'[t][HistLen][1] = now
            /\ \A i \in 1..(HistLen - 1) : level_history'[t][i] = level_history[t][i + 1]
\* C31: in every tick of a tank after its first HistLen ticks, the leak and the
\* stagnation check compare with the level reading stored at the end of the tick
\* HistLen ticks earlier, and the reading of the tick itself is stored after them
C31_BaselineIsOldestReading == [][Ticked => C31_Step]_vars
\* a tick after the first HistLen ticks of a tank: the level it read is the one
\* stored next to the oldest, and its leak check raised alarm 1 against the oldest
C31_Witness ==
    \E t \in Tanks :
        /\ steps[t] > HistLen /\ errors[t] = <<>>
        /\ InAlarms(alarms[t], 1) /\ AlarmTime(alarms[t], 1) = now - 1
        /\ ev[t].level_readouts[1] = level_history[t][1][2]

\* C32: the mixer never holds alarm 9 or 10, and a source tank never holds alarm 2
\* or 11
C32_AlarmsByKindOfTank ==
    /\ ~InAlarms(alarms["mixer"], 9) /\ ~InAlarms(alarms["mixer"], 10)
    /\ \A t \in Sources : ~InAlarms(alarms[t], 2) /\ ~InAlarms(alarms[t], 11)
\* the mixer holds alarm 2 for a leak alarm of a source, its very-low sensor read
\* true on a level above 0 in its latest tick, and a source holds alarm 9
C32_Witness ==
    /\ InAlarms(alarms["mixer"], 2)
    /\ ev["mixer"].level_readouts[2] /\ RLt(Zero, ev["mixer"].level_readouts[1])
    /\ \E t \in Sources : InAlarms(alarms[t], 1) /\ InAlarms(alarms[t], 9)

\* a call of get_alarms() ends in this step, and the tank's dictionary is no longer
\* the one the call began on
ReadEndsAfterChange ==
    /\ reader.pc # "idle" /\ reader'.pc = "idle"
    /\ alarms[reader.tank] # reader.seen
\* C33: a get_alarms() call during which the tick thread added or removed alarms of
\* the tank ends without an exception
C33_ReadDuringUpdateCompletes == [][ReadEndsAfterChange => raised' = "None"]_vars

C34_Step ==
    \A t \in Tanks :
        steps[t] < HistLen - 1 =>
            /\ level_history[t][1] = <<Unused, Zero>>
            /\ ~InAlarms(alarms'[t], 1)
            /\ RLt(Zero, ev'[t].current_valve) => InAlarms(alarms'[t], 3)
C35_EmptyNotEmptying ==
    \A t \in Tanks : ~(InAlarms(alarms[t], 8) /\ InAlarms(alarms[t], 12))

\* the paint of all tanks of the plant together, component by component
TotalPaint(p) == SumMix(p, tanks)
C36_Step ==
    LET received == MixAdd(paint["mixer"], SumMix(out', connected_from))
        rest == MixSub(received, out'["mixer"])
        clamped == \/ RLt(Rat(BASIN_VOLUME, 1), volume(rest))
                   \/ \E t \in Sources :
                         RLt(Rat(TANK_VOLUME, 1), volume(MixSub(paint[t], out'[t])))
    IN  ~clamped =>
            /\ TotalPaint(paint') = MixSub(TotalPaint(paint), out'["mixer"])
            /\ \A t \in Sources : MixSub(paint[t], paint'[t]) = out'[t]
            /\ MixAdd(paint'["mixer"], out'["mixer"]) = received
\* C36: a tick in which no tank is cut back to its capacity leaves, of every pigment,
\* the total of the tanks before the tick less what the mixer discharged; what each
\* source lost is what it sent, and the mixer discharged from its contents with all
\* of that added
C36_PaintConserved == [][Ticked => C36_Step]_vars
\* the latest tick moved paint from a source into the mixer and the mixer discharged
\* a part of its contents, without reaching its capacity
C36_Witness ==
    /\ \E t \in Sources : RLt(Zero, volume(out[t])) /\ RLt(Zero, volume(paint[t]))
    /\ RLt(Zero, volume(out["mixer"]))
    /\ RLt(Zero, volume(paint["mixer"]))
    /\ RLt(volume(paint["mixer"]), Rat(BASIN_VOLUME, 1))

\* tank t holds the capacity times level of the mixture it was constructed with
RestoredTo(p, t, level) ==
    /\ volume(p) = RMul(level, Rat(tank_volume(t), 1))
    /\ SameRatio(p, ConstructedPaint(t))
C37_Step ==
    /\ \A t \in Tanks : initial_paint'[t] = ConstructedPaint(t)
    /\ \A t \in Tanks :
          (/\ CallStep("fill", t) /\ raised' = "None"
           /\ ~Broken(errors[t], "fill_actuator"))
             => RestoredTo(paint'[t], t, last_call'.arg)
\* C37: no tick and no call changes the initial_paint of a tank, though self.paint
\* names the same object at first; every fill() that a working fill actuator
\* carries out leaves the tank with the pigment ratio it was constructed with
C37_InitialPaintKept == [][C37_Step]_vars
\* a source that has run with its valve open, so that its paint was changed while it
\* no longer named the initial object, right after fill(0.5) has refilled it
C37_Witness ==
    \E t \in Sources :
        /\ LastCall("fill", t) /\ last_call.arg = Half /\ raised = "None"
        /\ steps[t] >= 1 /\ RLt(Zero, outflow[t]) /\ ~aliased[t]
        /\ paint[t] = MixMul(ConstructedPaint(t), Half)
        /\ initial_paint[t] = ConstructedPaint(t)

\* C38: simulate_timestep of a tank constructed with level_refs, break_probs or
\* alarm_defs runs without error, as it does for a tank built with the defaults
C38_CustomTankRuns == raised # "AttributeError"

====
